---- MODULE Spec2Model ----
(***************************************************************************)
(* A model of the protocol core of rust-rtmp:                              *)
(*   - the Abort message codec      (src/messages/types/abort.rs),         *)
(*   - the outstanding-transaction ledger of a client session             *)
(*                                  (src/sessions/client/...),             *)
(*   - the StreamMetadata <-> AMF0 property map translation                *)
(*                                  (src/sessions/mod.rs).                 *)
(*                                                                         *)
(* Numbers keep the width they have in the code.  TLC's integers are 32    *)
(* bit signed, so a u32 is kept as two 16 bit limbs (hi, lo) and an f64 as *)
(* a sign, an integer part in two limbs and a fraction in units of 2^-30.  *)
(***************************************************************************)
EXTENDS Integers, Sequences, FiniteSets, TLC

VARIABLES
    \* ---- Abort codec ----
    stream_id,      \* argument of the last serialize call (Option<u32>)
    encoded,        \* its Result<Bytes, MessageSerializationError> (Option)
    wire,           \* the byte buffer handed to deserialize
    message,        \* Result of the last deserialize call (Option)
    \* ---- transaction ledger ----
    outstanding_transactions,  \* HashMap<u32, OutstandingTransaction>
    take_result,    \* result of the last take (Option<Result>)
    history,        \* the calls made so far, oldest first
    \* ---- stream metadata ----
    pc,             \* position in the metadata pipeline
    metadata,       \* the StreamMetadata record being worked on
    before,         \* the record as it was before apply_metadata_values
    properties,     \* the map passed to apply_metadata_values (Option)
    amf,            \* the Amf0Value returned by to_amf_value (Option)
    reparsed        \* from_properties of that value's map (Option)

codecVars == <<stream_id, encoded, wire, message>>
ledgerVars == <<outstanding_transactions, take_result, history>>
metaVars == <<pc, metadata, before, properties, amf, reparsed>>
vars == <<stream_id, encoded, wire, message,
          outstanding_transactions, take_result, history,
          pc, metadata, before, properties, amf, reparsed>>

\* Option<T> and Result<T, E>
None == [tag |-> "None"]
Some(v) == [tag |-> "Some", val |-> v]
Ok(v) == [tag |-> "Ok", val |-> v]
Err(e) == [tag |-> "Err", err |-> e]

\* The empty map (a function with the empty domain).
EmptyMap == [k \in {} |-> None]

(***************************************************************************)
(* u32: the value hi * 2^16 + lo.                                          *)
(***************************************************************************)
Limb == 2^16
U32(h, l) == [hi |-> h, lo |-> l]
U32Max == U32(Limb - 1, Limb - 1)

(***************************************************************************)
(* Abort codec                                                             *)
(***************************************************************************)

\* A faulty variant: the bytes least significant first.
WriteU32LittleEndian(n) ==
    <<n.lo % 256, n.lo \div 256, n.hi % 256, n.hi \div 256>>

\* byteorder's write_u32::<BigEndian>: the four bytes of n, most
\* significant first.
WriteU32BigEndian(n) ==
    <<n.hi \div 256, n.hi % 256, n.lo \div 256, n.lo % 256>>

\* A faulty variant: the id written as the 24 bit integer RTMP uses
\* elsewhere.
WriteU24BigEndian(n) ==
    <<n.hi % 256, n.lo \div 256, n.lo % 256>>

serializeU24(sid) == Ok(WriteU24BigEndian(sid))

\* abort::serialize: writes into a Cursor over a fresh Vec, which grows as
\* needed, so the `?` never takes the error path.
serialize(sid) == Ok(WriteU32BigEndian(sid))

\* A faulty variant: missing bytes read as zero.
ReadU32BigEndianPadded(data) ==
    LET b(i) == IF i <= Len(data) THEN data[i] ELSE 0
    IN  Ok(U32(b(1) * 256 + b(2), b(3) * 256 + b(4)))

\* byteorder's read_u32::<BigEndian> on a Cursor at position 0: read_exact
\* of 4 bytes, UnexpectedEof when fewer remain; bytes after the fourth are
\* left unread.
ReadU32BigEndian(data) ==
    IF Len(data) < 4
    THEN Err("UnexpectedEof")
    ELSE Ok(U32(data[1] * 256 + data[2], data[3] * 256 + data[4]))

\* abort::deserialize: `?` turns the io::Error into a
\* MessageDeserializationError.
deserialize(data) ==
    LET r == ReadU32BigEndian(data)
    IN  IF r.tag = "Err"
        THEN Err([kind |-> "MessageDeserializationError", io |-> r.err])
        ELSE Ok([type |-> "Abort", stream_id |-> r.val])

\* ---- inputs ----
SampleLimbs == {0, 1, 258, 523, 532, 772, 32768, 65535}
SampleStreamIds == {U32(h, l) : h \in SampleLimbs, l \in SampleLimbs}
SampleBytes == {0, 2, 11, 255}
MaxWireLen == 5

RECURSIVE SeqsUpTo(_, _)
SeqsUpTo(S, n) ==
    IF n = 0 THEN {<<>>}
    ELSE LET shorter == SeqsUpTo(S, n - 1)
         IN  shorter \cup {Append(s, b) : s \in {t \in shorter : Len(t) = n - 1}, b \in S}

WireInputs == SeqsUpTo(SampleBytes, MaxWireLen)

CodecIdle ==
    /\ stream_id = None
    /\ encoded = None
    /\ wire = <<>>
    /\ message = None

\* The session serializes an Abort message and sends its bytes.
Serialize ==
    /\ CodecIdle
    /\ \E sid \in SampleStreamIds :
          /\ stream_id' = Some(sid)
          /\ encoded' = Some(serialize(sid))
          /\ wire' = serialize(sid).val
    /\ message' = None

\* The de-chunking layer hands over a message body received from the peer.
Receive ==
    /\ CodecIdle
    /\ \E data \in WireInputs : wire' = data
    /\ stream_id' = None
    /\ encoded' = None
    /\ message' = None

\* The session decodes the buffer.
Deserialize ==
    /\ message = None
    /\ message' = Some(deserialize(wire))
    /\ UNCHANGED <<stream_id, encoded, wire>>

(***************************************************************************)
(* Transaction ledger                                                      *)
(***************************************************************************)

\* enum TransactionPurpose
PlayRequest(key) == [type |-> "PlayRequest", stream_key |-> key]
PublishRequest(key, rtype) ==
    [type |-> "PublishRequest", stream_key |-> key, request_type |-> rtype]

\* enum OutstandingTransaction
ConnectionRequested(app) == [type |-> "ConnectionRequested", app_name |-> app]
CreateStream(purpose) == [type |-> "CreateStream", purpose |-> purpose]

\* A faulty variant: an id already present keeps its entry.
registerKeepFirst(ledger, id, entry) ==
    IF id \in DOMAIN ledger THEN ledger
    ELSE [k \in DOMAIN ledger \cup {id} |-> IF k = id THEN entry ELSE ledger[k]]

\* register(transaction_id, entry): inserts; an id already present is
\* silently overwritten.
register(ledger, id, entry) ==
    [k \in DOMAIN ledger \cup {id} |-> IF k = id THEN entry ELSE ledger[k]]

\* A faulty variant: the entry is returned and left in place.
takeKeeping(ledger, id) ==
    IF id \in DOMAIN ledger
    THEN [result |-> Ok(ledger[id]), ledger |-> ledger]
    ELSE [result |-> Err("UnknownTransactionError"), ledger |-> ledger]

\* take(transaction_id): removes and returns the entry, or fails with
\* UnknownTransactionError.  Yields the result and the ledger left.
take(ledger, id) ==
    IF id \in DOMAIN ledger
    THEN [result |-> Ok(ledger[id]),
          ledger |-> [k \in DOMAIN ledger \ {id} |-> ledger[k]]]
    ELSE [result |-> Err("UnknownTransactionError"), ledger |-> ledger]

\* ---- inputs ----
TransactionIds == {U32(0, 7), U32(0, 8)}
Entries ==
    { ConnectionRequested("live"),
      CreateStream(PlayRequest("key")),
      CreateStream(PublishRequest("key", "Live")) }
MaxLedgerOps == 5

LedgerIdle ==
    /\ outstanding_transactions = EmptyMap
    /\ take_result = None
    /\ history = <<>>

\* The session sends a connect or createStream request.
Register ==
    /\ Len(history) < MaxLedgerOps
    /\ \E id \in TransactionIds, entry \in Entries :
          /\ outstanding_transactions' = register(outstanding_transactions, id, entry)
          /\ history' = Append(history, [op |-> "register", id |-> id, entry |-> entry])
    /\ take_result' = None

\* The session resolves the transaction id of a reply.
Take ==
    /\ Len(history) < MaxLedgerOps
    /\ \E id \in TransactionIds :
          LET t == take(outstanding_transactions, id)
          IN  /\ outstanding_transactions' = t.ledger
              /\ take_result' = Some(t.result)
              /\ history' = Append(history, [op |-> "take", id |-> id, result |-> t.result])

(***************************************************************************)
(* Floating point.  A float is NaN, an infinity, or the finite value       *)
(*     (-1)^neg * (hi * 2^16 + lo + frac / 2^30),                          *)
(* tagged with its width.  The finite values modelled are below 2^40 and   *)
(* multiples of 2^-30: every one of them is an f64 exactly.                *)
(***************************************************************************)
FracUnit == 2^30

Fin(neg, h, l, f) ==
    [bits |-> 64, cls |-> "fin", neg |-> neg, hi |-> h, lo |-> l, frac |-> f]
NaN == [bits |-> 64, cls |-> "nan", neg |-> FALSE, hi |-> 0, lo |-> 0, frac |-> 0]
Inf(neg) == [bits |-> 64, cls |-> "inf", neg |-> neg, hi |-> 0, lo |-> 0, frac |-> 0]

IsNaN(x) == x.cls = "nan"
IsZero(x) == x.cls = "fin" /\ x.hi = 0 /\ x.lo = 0 /\ x.frac = 0

\* `==` on f32 and f64 (PartialEq): a NaN equals nothing, -0.0 equals 0.0.
FloatEq(a, b) ==
    /\ ~IsNaN(a)
    /\ ~IsNaN(b)
    /\ \/ IsZero(a) /\ IsZero(b)
       \/ a = b

RECURSIVE BitLen(_)
BitLen(n) == IF n = 0 THEN 0 ELSE 1 + BitLen(n \div 2)

\* `x as u32` on an f64: truncates toward zero, saturates at 0 and
\* u32::MAX, NaN gives 0 (the cast as Rust defines it since 1.45).
F64ToU32(x) ==
    IF IsNaN(x) \/ x.neg THEN U32(0, 0)
    ELSE IF x.cls = "inf" \/ x.hi >= Limb THEN U32Max
    ELSE U32(x.hi, x.lo)

\* `x as f64` on a u32: exact.
U32ToF64(n) == Fin(FALSE, n.hi, n.lo, 0)

\* The magnitude (hi, lo, frac) with one unit added at integer position.
CarryLo(h, l) == IF l = Limb THEN <<h + 1, 0>> ELSE <<h, l>>

\* The magnitude rounded to 24 significant bits, ties to even: the bits
\* below position t (counted in units of 2^-30) are rounded away.
RoundMagnitude(h, l, f) ==
    LET t == IF h = 0 /\ l = 0 THEN BitLen(f) - 24
             ELSE IF h = 0 THEN 6 + BitLen(l)
             ELSE 22 + BitLen(h)
    IN  IF t <= 0 THEN <<h, l, f>>
        ELSE IF t < 30 THEN
            LET q == 2^t
                r == f % q
                base == f - r
                up == r > q \div 2 \/ (r = q \div 2 /\ (base \div q) % 2 = 1)
                f2 == IF up THEN base + q ELSE base
                c == CarryLo(h, l + 1)
            IN  IF f2 = FracUnit THEN <<c[1], c[2], 0>> ELSE <<h, l, f2>>
        ELSE IF t = 30 THEN
            LET up == f > FracUnit \div 2 \/ (f = FracUnit \div 2 /\ l % 2 = 1)
                c == CarryLo(h, IF up THEN l + 1 ELSE l)
            IN  <<c[1], c[2], 0>>
        ELSE
            LET q == 2^(t - 30)
                r == l % q
                base == l - r
                odd == IF q < Limb THEN (base \div q) % 2 = 1 ELSE h % 2 = 1
                up == \/ r > q \div 2
                      \/ r = q \div 2 /\ f > 0
                      \/ r = q \div 2 /\ f = 0 /\ odd
                c == CarryLo(h, IF up THEN base + q ELSE base)
            IN  <<c[1], c[2], 0>>

\* `x as f32` on an f64: round to nearest, ties to even.  (Below 2^40 and
\* at or above 2^-30 an f32 neither overflows nor goes subnormal.)
F64ToF32(x) ==
    IF x.cls # "fin" THEN [x EXCEPT !.bits = 32]
    ELSE LET m == RoundMagnitude(x.hi, x.lo, x.frac)
         IN  [bits |-> 32, cls |-> "fin", neg |-> x.neg,
              hi |-> m[1], lo |-> m[2], frac |-> m[3]]

\* `x as f64` on an f32: exact.
F32ToF64(x) == [x EXCEPT !.bits = 64]

(***************************************************************************)
(* Amf0Value (rml_amf0)                                                    *)
(***************************************************************************)
Number(x) == [kind |-> "Number", num |-> x]
Boolean(b) == [kind |-> "Boolean", bool |-> b]
Utf8String(s) == [kind |-> "Utf8String", str |-> s]
Object(map) == [kind |-> "Object", obj |-> map]

get_number(v) == IF v.kind = "Number" THEN Some(v.num) ELSE None
get_boolean(v) == IF v.kind = "Boolean" THEN Some(v.bool) ELSE None
get_string(v) == IF v.kind = "Utf8String" THEN Some(v.str) ELSE None

\* `==` on Amf0Value (derived PartialEq): the same variant with equal
\* payloads.  Numbers compare as f64 does; objects compare as HashMap
\* does, the same keys with `==` values under each.
RECURSIVE Amf0Eq(_, _)
Amf0Eq(a, b) ==
    /\ a.kind = b.kind
    /\ IF a.kind = "Number" THEN FloatEq(a.num, b.num)
       ELSE IF a.kind = "Object"
       THEN /\ DOMAIN a.obj = DOMAIN b.obj
            /\ \A k \in DOMAIN a.obj : Amf0Eq(a.obj[k], b.obj[k])
       ELSE a = b

(***************************************************************************)
(* StreamMetadata                                                          *)
(***************************************************************************)
Fields ==
    { "video_width", "video_height", "video_codec", "video_frame_rate",
      "video_bitrate_kbps", "audio_codec", "audio_bitrate_kbps",
      "audio_sample_rate", "audio_channels", "audio_is_stereo", "encoder" }

\* StreamMetadata::new
StreamMetadata_new == [f \in Fields |-> None]

\* A faulty variant: a key that is absent or of another kind clears the
\* field.
U32ArmClearing(old, props, key) ==
    IF key \in DOMAIN props /\ get_number(props[key]).tag = "Some"
    THEN Some(F64ToU32(get_number(props[key]).val))
    ELSE None

\* The arms of the match in apply_metadata_values, by the field's type: the
\* field keeps what it holds unless the key is present and the getter
\* yields a value.
U32Arm(old, props, key) ==
    IF key \in DOMAIN props /\ get_number(props[key]).tag = "Some"
    THEN Some(F64ToU32(get_number(props[key]).val))
    ELSE old

F64Arm(old, props, key) ==
    IF key \in DOMAIN props /\ get_number(props[key]).tag = "Some"
    THEN Some(get_number(props[key]).val)
    ELSE old

F32Arm(old, props, key) ==
    IF key \in DOMAIN props /\ get_number(props[key]).tag = "Some"
    THEN Some(F64ToF32(get_number(props[key]).val))
    ELSE old

\* A faulty variant: a number is taken as a boolean, zero being false.
BoolArmFromNumber(old, props, key) ==
    IF key \in DOMAIN props /\ get_boolean(props[key]).tag = "Some"
    THEN Some(get_boolean(props[key]).val)
    ELSE IF key \in DOMAIN props /\ get_number(props[key]).tag = "Some"
    THEN Some(~IsZero(get_number(props[key]).val))
    ELSE old

BoolArm(old, props, key) ==
    IF key \in DOMAIN props /\ get_boolean(props[key]).tag = "Some"
    THEN Some(get_boolean(props[key]).val)
    ELSE old

StringArm(old, props, key) ==
    IF key \in DOMAIN props /\ get_string(props[key]).tag = "Some"
    THEN Some(get_string(props[key]).val)
    ELSE old

\* StreamMetadata::apply_metadata_values.  The keys of a HashMap are
\* distinct and each arm writes its own field, so the order in which
\* drain() yields the entries does not matter; any other key falls to `_`.
apply_metadata_values(self, props) ==
    [ video_width        |-> U32Arm(self.video_width, props, "width"),
      video_height       |-> U32Arm(self.video_height, props, "height"),
      video_codec        |-> F64Arm(self.video_codec, props, "videocodecid"),
      video_bitrate_kbps |-> U32Arm(self.video_bitrate_kbps, props, "videodatarate"),
      video_frame_rate   |-> F32Arm(self.video_frame_rate, props, "framerate"),
      audio_codec        |-> F64Arm(self.audio_codec, props, "audiocodecid"),
      audio_bitrate_kbps |-> U32Arm(self.audio_bitrate_kbps, props, "audiodatarate"),
      audio_sample_rate  |-> U32Arm(self.audio_sample_rate, props, "audiosamplerate"),
      audio_channels     |-> U32Arm(self.audio_channels, props, "audiochannels"),
      audio_is_stereo    |-> BoolArm(self.audio_is_stereo, props, "stereo"),
      encoder            |-> StringArm(self.encoder, props, "encoder") ]

\* from_properties: a new record with the map applied.
from_properties(props) == apply_metadata_values(StreamMetadata_new, props)

\* A faulty variant: an absent field gets a zero placeholder.
InsertPlaceholder(map, key, value) ==
    [k \in DOMAIN map \cup {key} |->
        IF k # key THEN map[k]
        ELSE IF value.tag = "Some" THEN value.val ELSE Number(Fin(FALSE, 0, 0, 0))]

\* `field.map(|x| properties.insert(key, value))`: an entry for a present
\* field, nothing for an absent one.
Insert(map, key, value) ==
    IF value.tag = "Some"
    THEN [k \in DOMAIN map \cup {key} |-> IF k = key THEN value.val ELSE map[k]]
    ELSE map

\* The values inserted, by the field's type.
NumberOfU32(field) ==
    IF field.tag = "Some" THEN Some(Number(U32ToF64(field.val))) ELSE None

NumberOfF64(field) ==
    IF field.tag = "Some" THEN Some(Number(field.val)) ELSE None

\* A faulty variant: the frame rate written as a whole number.
NumberOfF32AsInteger(field) ==
    IF field.tag = "Some"
    THEN Some(Number([F32ToF64(field.val) EXCEPT !.frac = 0]))
    ELSE None

NumberOfF32(field) ==
    IF field.tag = "Some" THEN Some(Number(F32ToF64(field.val))) ELSE None

\* A faulty variant: the stereo flag written as the number 1 or 0.
BooleanAsNumber(field) ==
    IF field.tag = "Some"
    THEN Some(Number(Fin(FALSE, 0, IF field.val THEN 1 ELSE 0, 0)))
    ELSE None

BooleanOf(field) ==
    IF field.tag = "Some" THEN Some(Boolean(field.val)) ELSE None

Utf8StringOf(field) ==
    IF field.tag = "Some" THEN Some(Utf8String(field.val)) ELSE None

\* StreamMetadata::to_amf_value
to_amf_value(self) ==
    LET p0  == EmptyMap
        p1  == Insert(p0, "width", NumberOfU32(self.video_width))
        p2  == Insert(p1, "height", NumberOfU32(self.video_height))
        p3  == Insert(p2, "videocodecid", NumberOfF64(self.video_codec))
        p4  == Insert(p3, "videodatarate", NumberOfU32(self.video_bitrate_kbps))
        p5  == Insert(p4, "framerate", NumberOfF32(self.video_frame_rate))
        p6  == Insert(p5, "audiocodecid", NumberOfF64(self.audio_codec))
        p7  == Insert(p6, "audiodatarate", NumberOfU32(self.audio_bitrate_kbps))
        p8  == Insert(p7, "audiosamplerate", NumberOfU32(self.audio_sample_rate))
        p9  == Insert(p8, "audiochannels", NumberOfU32(self.audio_channels))
        p10 == Insert(p9, "stereo", BooleanOf(self.audio_is_stereo))
        p11 == Insert(p10, "encoder", Utf8StringOf(self.encoder))
    IN  Object(p11)

\* `==` on Option<f64>, Option<f32> (derived PartialEq).
OptFloatEq(a, b) ==
    /\ a.tag = b.tag
    /\ a.tag = "Some" => FloatEq(a.val, b.val)

FloatFields == {"video_codec", "audio_codec", "video_frame_rate"}

\* `==` on StreamMetadata (#[derive(PartialEq)]): field by field.
StreamMetadataEq(a, b) ==
    \A f \in Fields :
        IF f \in FloatFields THEN OptFloatEq(a[f], b[f]) ELSE a[f] = b[f]

\* ---- the eleven recognized keys: field, key, kind of value, field type ----
KeyOf ==
    [ video_width        |-> "width",
      video_height       |-> "height",
      video_codec        |-> "videocodecid",
      video_bitrate_kbps |-> "videodatarate",
      video_frame_rate   |-> "framerate",
      audio_codec        |-> "audiocodecid",
      audio_bitrate_kbps |-> "audiodatarate",
      audio_sample_rate  |-> "audiosamplerate",
      audio_channels     |-> "audiochannels",
      audio_is_stereo    |-> "stereo",
      encoder            |-> "encoder" ]

TypeOf ==
    [ video_width        |-> "u32",
      video_height       |-> "u32",
      video_codec        |-> "f64",
      video_bitrate_kbps |-> "u32",
      video_frame_rate   |-> "f32",
      audio_codec        |-> "f64",
      audio_bitrate_kbps |-> "u32",
      audio_sample_rate  |-> "u32",
      audio_channels     |-> "u32",
      audio_is_stereo    |-> "bool",
      encoder            |-> "String" ]

RecognizedKeys == {KeyOf[f] : f \in Fields}

ExpectedKind(f) ==
    IF TypeOf[f] = "bool" THEN "Boolean"
    ELSE IF TypeOf[f] = "String" THEN "Utf8String"
    ELSE "Number"

\* ---- inputs ----
\* 30.0, 29.97 (to 30 fractional bits), -1.5, 2^32 + 5, -0.0, +infinity
\* and NaN; a boolean; a text.
SampleValues ==
    { Number(Fin(FALSE, 0, 30, 0)),
      Number(Fin(FALSE, 0, 29, 1041529569)),
      Number(Fin(TRUE, 0, 1, 536870912)),
      Number(Fin(FALSE, 65536, 5, 0)),
      Number(Fin(TRUE, 0, 0, 0)),
      Number(Inf(FALSE)),
      Number(NaN),
      Boolean(TRUE),
      Utf8String("obs") }

\* The recognized keys and one that is not.
SampleKeys == RecognizedKeys \cup {"duration"}

MaxProperties == 2

InputMaps ==
    UNION { [K -> SampleValues] :
            K \in {S \in SUBSET SampleKeys : Cardinality(S) <= MaxProperties} }

\* A record a publisher fills in by hand (every field is pub).
PublisherRecord ==
    [ video_width        |-> Some(U32(0, 1920)),
      video_height       |-> Some(U32(0, 1080)),
      video_codec        |-> Some(Fin(FALSE, 0, 7, 0)),
      video_bitrate_kbps |-> Some(U32(0, 2500)),
      video_frame_rate   |-> Some(F64ToF32(Fin(FALSE, 0, 30, 0))),
      audio_codec        |-> Some(Fin(FALSE, 0, 10, 0)),
      audio_bitrate_kbps |-> Some(U32(0, 128)),
      audio_sample_rate  |-> Some(U32(0, 44100)),
      audio_channels     |-> Some(U32(0, 2)),
      audio_is_stereo    |-> Some(TRUE),
      encoder            |-> Some("encoder-1") ]

\* A record with some fields set, one of them to NaN.
PartialRecord ==
    [ StreamMetadata_new EXCEPT
        !.video_codec = Some(NaN),
        !.video_frame_rate = Some(F64ToF32(Fin(FALSE, 0, 29, 1041529569))),
        !.audio_sample_rate = Some(U32Max),
        !.audio_is_stereo = Some(FALSE) ]

StartRecords == {StreamMetadata_new, PublisherRecord, PartialRecord}

MetaIdle ==
    /\ pc = "start"
    /\ metadata = StreamMetadata_new
    /\ before = StreamMetadata_new
    /\ properties = None
    /\ amf = None
    /\ reparsed = None

\* A metadata message arrives and its property map is applied.
ApplyMetadataValues ==
    /\ pc = "start"
    /\ pc' = "applied"
    /\ before' = metadata
    /\ \E props \in InputMaps :
          /\ properties' = Some(props)
          /\ metadata' = apply_metadata_values(metadata, props)
    /\ UNCHANGED <<amf, reparsed>>

\* The record is turned into an AMF0 object to be sent.
ToAmfValue ==
    /\ pc \in {"start", "applied"}
    /\ pc' = "emitted"
    /\ amf' = Some(to_amf_value(metadata))
    /\ UNCHANGED <<metadata, before, properties, reparsed>>

\* The peer parses the object it was sent.
FromProperties ==
    /\ pc = "emitted"
    /\ pc' = "reparsed"
    /\ reparsed' = Some(from_properties(amf.val.obj))
    /\ UNCHANGED <<metadata, before, properties, amf>>

(***************************************************************************)
(* Specifications: one per component (the components share no state).      *)
(***************************************************************************)
CodecInit == CodecIdle /\ LedgerIdle /\ MetaIdle

CodecNext ==
    \/ Serialize /\ UNCHANGED <<ledgerVars, metaVars>>
    \/ Receive /\ UNCHANGED <<ledgerVars, metaVars>>
    \/ Deserialize /\ UNCHANGED <<ledgerVars, metaVars>>

SpecCodec == CodecInit /\ [][CodecNext]_vars

LedgerInit == CodecIdle /\ LedgerIdle /\ MetaIdle

LedgerNext ==
    \/ Register /\ UNCHANGED <<codecVars, metaVars>>
    \/ Take /\ UNCHANGED <<codecVars, metaVars>>

SpecLedger == LedgerInit /\ [][LedgerNext]_vars

MetaInit ==
    /\ CodecIdle
    /\ LedgerIdle
    /\ pc = "start"
    /\ metadata \in StartRecords
    /\ before = metadata
    /\ properties = None
    /\ amf = None
    /\ reparsed = None

MetaNext ==
    \/ ApplyMetadataValues /\ UNCHANGED <<codecVars, ledgerVars>>
    \/ ToAmfValue /\ UNCHANGED <<codecVars, ledgerVars>>
    \/ FromProperties /\ UNCHANGED <<codecVars, ledgerVars>>

SpecMetadata == MetaInit /\ [][MetaNext]_vars

(***************************************************************************)
(* Properties of the Abort codec (SpecCodec)                               *)
(***************************************************************************)

\* C1: for every stream id s, deserialize applied to the bytes serialize(s)
\* returned succeeds and yields exactly Abort{stream_id: s}.
AbortRoundTrip ==
    (stream_id.tag = "Some" /\ message.tag = "Some")
        => message.val = Ok([type |-> "Abort", stream_id |-> stream_id.val])

\* The bytes of 0x80000000 + 523 were serialized and decoded.
AbortRoundTripWitness ==
    /\ stream_id = Some(U32(32768, 523))
    /\ encoded.tag = "Some"
    /\ wire = encoded.val.val
    /\ message.tag = "Some"
    /\ message.val.tag = "Ok"

\* C2: deserialize on an input of length 0, 1, 2 or 3 returns a
\* deserialization error, whatever the bytes are.
ShortInputIsError ==
    (message.tag = "Some" /\ Len(wire) < 4)
        => /\ message.val.tag = "Err"
           /\ message.val.err.kind = "MessageDeserializationError"

\* Three bytes, not all zero, were decoded into an error.
ShortInputIsErrorWitness ==
    /\ Len(wire) = 3
    /\ wire[3] = 255
    /\ message.tag = "Some"
    /\ message.val.tag = "Err"

\* C3: serialize(s) returns Ok with exactly 4 bytes, the big-endian
\* encoding of s, most significant byte first; serialize(523) is
\* [0x00, 0x00, 0x02, 0x0B].
SerializeBigEndian ==
    stream_id.tag = "Some" =>
        /\ encoded.tag = "Some"
        /\ encoded.val.tag = "Ok"
        /\ LET b == encoded.val.val
               s == stream_id.val
           IN  /\ Len(b) = 4
               /\ \A i \in 1..Len(b) : b[i] \in 0..255
               /\ b[1] * 256 + b[2] = s.hi
               /\ b[3] * 256 + b[4] = s.lo
               /\ s = U32(0, 523) => b = <<0, 0, 2, 11>>

\* 523 was serialized.
SerializeBigEndianWitness ==
    /\ stream_id = Some(U32(0, 523))
    /\ encoded = Some(Ok(<<0, 0, 2, 11>>))

(***************************************************************************)
(* Properties of the transaction ledger (SpecLedger)                       *)
(***************************************************************************)

\* The index of the last call on `id` among the first n calls, 0 if none.
LastCallOn(id, n) ==
    LET S == {j \in 1..n : history[j].id = id}
    IN  IF S = {} THEN 0 ELSE CHOOSE j \in S : \A k \in S : k <= j

\* `id` was registered and not taken since, after the first n calls.
Pending(id, n) ==
    LastCallOn(id, n) > 0 /\ history[LastCallOn(id, n)].op = "register"

\* C4: take(id) returns an entry exactly when id has been registered and
\* not taken since; the entry returned is the one registered, and it is
\* removed, so a second take fails with UnknownTransactionError.
TakeConsumesOnce ==
    /\ \A i \in 1..Len(history) :
          history[i].op = "take" =>
             IF Pending(history[i].id, i - 1)
             THEN history[i].result =
                      Ok(history[LastCallOn(history[i].id, i - 1)].entry)
             ELSE history[i].result = Err("UnknownTransactionError")
    /\ \A id \in TransactionIds :
          id \in DOMAIN outstanding_transactions <=> Pending(id, Len(history))

\* register(7, ConnectionRequested{"live"}), take(7), take(7).
TakeConsumesOnceWitness ==
    /\ Len(history) = 3
    /\ history[1] = [op |-> "register", id |-> U32(0, 7),
                     entry |-> ConnectionRequested("live")]
    /\ history[2] = [op |-> "take", id |-> U32(0, 7),
                     result |-> Ok(ConnectionRequested("live"))]
    /\ history[3] = [op |-> "take", id |-> U32(0, 7),
                     result |-> Err("UnknownTransactionError")]
    /\ take_result = Some(Err("UnknownTransactionError"))
    /\ outstanding_transactions = EmptyMap

\* Call j registers an id that is pending, over the entry of call i.
Overwrites(i, j) ==
    /\ history[j].op = "register"
    /\ Pending(history[j].id, j - 1)
    /\ i = LastCallOn(history[j].id, j - 1)

\* C9: register(id, e2) while id is registered with e1 overwrites: the
\* ledger holds one entry for id, e2; the next take(id) returns e2, the
\* take after that fails; entries under other ids are unaffected.
RegisterOverwrites ==
    /\ \A id \in DOMAIN outstanding_transactions :
          /\ Pending(id, Len(history))
          /\ outstanding_transactions[id] =
                 history[LastCallOn(id, Len(history))].entry
    /\ \A j \in 1..Len(history) : \A i \in 1..(j - 1) :
          Overwrites(i, j) =>
             \A k \in (j + 1)..Len(history) :
                (history[k].op = "take" /\ history[k].id = history[j].id) =>
                    IF LastCallOn(history[j].id, k - 1) = j
                    THEN history[k].result = Ok(history[j].entry)
                    ELSE Pending(history[j].id, k - 1)
                         \/ history[k].result = Err("UnknownTransactionError")

\* register(8, x), register(7, e1), register(7, e2), take(7), take(7).
RegisterOverwritesWitness ==
    /\ Len(history) = 5
    /\ history[1] = [op |-> "register", id |-> U32(0, 8),
                     entry |-> CreateStream(PlayRequest("key"))]
    /\ history[2] = [op |-> "register", id |-> U32(0, 7),
                     entry |-> ConnectionRequested("live")]
    /\ history[3] = [op |-> "register", id |-> U32(0, 7),
                     entry |-> CreateStream(PublishRequest("key", "Live"))]
    /\ history[4] = [op |-> "take", id |-> U32(0, 7),
                     result |-> Ok(CreateStream(PublishRequest("key", "Live")))]
    /\ history[5] = [op |-> "take", id |-> U32(0, 7),
                     result |-> Err("UnknownTransactionError")]
    /\ DOMAIN outstanding_transactions = {U32(0, 8)}
    /\ outstanding_transactions[U32(0, 8)] = CreateStream(PlayRequest("key"))

(***************************************************************************)
(* Properties of the stream metadata translation (SpecMetadata)            *)
(***************************************************************************)

\* The key of field f is in the map with a value of the kind f expects.
WellTyped(props, f) ==
    KeyOf[f] \in DOMAIN props /\ props[KeyOf[f]].kind = ExpectedKind(f)

\* What field f holds once a well-typed value v was applied to it.
Narrowed(f, v) ==
    IF TypeOf[f] = "u32" THEN F64ToU32(v.num)
    ELSE IF TypeOf[f] = "f32" THEN F64ToF32(v.num)
    ELSE IF TypeOf[f] = "f64" THEN v.num
    ELSE IF TypeOf[f] = "bool" THEN v.bool
    ELSE v.str

\* The AMF0 value of a field's content x.
Widened(f, x) ==
    IF TypeOf[f] = "u32" THEN Number(U32ToF64(x))
    ELSE IF TypeOf[f] = "f32" THEN Number(F32ToF64(x))
    ELSE IF TypeOf[f] = "f64" THEN Number(x)
    ELSE IF TypeOf[f] = "bool" THEN Boolean(x)
    ELSE Utf8String(x)

\* The record was parsed from a property map by from_properties.
Parsed == properties.tag = "Some" /\ before = StreamMetadata_new

\* C5: from_properties sets each of the eleven fields if and only if its
\* key is present with a value of the expected kind, to that value
\* narrowed; a key that is absent or of another kind leaves its field
\* absent and does not affect the other fields.
FromPropertiesSetsWellTyped ==
    (pc = "applied" /\ Parsed) =>
        \A f \in Fields :
            IF WellTyped(properties.val, f)
            THEN metadata[f] = Some(Narrowed(f, properties.val[KeyOf[f]]))
            ELSE metadata[f] = None

\* stereo came as a number beside a well-typed width.
FromPropertiesSetsWellTypedWitness ==
    /\ pc = "applied"
    /\ Parsed
    /\ DOMAIN properties.val = {"stereo", "width"}
    /\ properties.val["stereo"].kind = "Number"
    /\ properties.val["width"] = Number(Fin(FALSE, 0, 29, 1041529569))
    /\ metadata.audio_is_stereo = None
    /\ metadata.video_width = Some(U32(0, 29))

\* C6 as stated: for every record m produced by from_properties,
\* from_properties(to_properties(m)) equals m field by field.
RoundTripEqual ==
    (pc = "reparsed" /\ Parsed) => StreamMetadataEq(reparsed.val, metadata)

\* A field of m that holds a NaN.
HoldsNaN(m, f) ==
    f \in FloatFields /\ m[f].tag = "Some" /\ IsNaN(m[f].val)

\* C6 amended: for every record m produced by from_properties, the round
\* trip gives every field of m that does not hold a NaN an equal value and
\* gives a field that holds a NaN a NaN again; so the records are equal
\* whenever video_codec, audio_codec and video_frame_rate hold no NaN.
RoundTripEqualUpToNaN ==
    (pc = "reparsed" /\ Parsed) =>
        /\ \A f \in Fields :
              IF HoldsNaN(metadata, f)
              THEN HoldsNaN(reparsed.val, f)
              ELSE IF f \in FloatFields
                   THEN OptFloatEq(reparsed.val[f], metadata[f])
                   ELSE reparsed.val[f] = metadata[f]
        /\ (\A f \in Fields : ~HoldsNaN(metadata, f))
              => StreamMetadataEq(reparsed.val, metadata)

\* A record whose frame rate was rounded to an f32 and whose width
\* saturated went through the round trip.
RoundTripEqualUpToNaNWitness ==
    /\ pc = "reparsed"
    /\ Parsed
    /\ DOMAIN properties.val = {"framerate", "width"}
    /\ properties.val["framerate"] = Number(Fin(FALSE, 0, 29, 1041529569))
    /\ properties.val["width"] = Number(Fin(FALSE, 65536, 5, 0))
    /\ metadata.video_frame_rate.val.frac # 1041529569
    /\ metadata.video_width = Some(U32Max)
    /\ StreamMetadataEq(reparsed.val, metadata)

\* Every recognized key of the map carries a value of the expected kind.
AllWellTyped(props) ==
    \A f \in Fields : KeyOf[f] \in DOMAIN props => WellTyped(props, f)

\* The value the output should carry for field f: the input value
\* narrowed to the field's width.
NarrowedValue(f, v) == Widened(f, Narrowed(f, v))

\* C7 as stated: for a map whose recognized keys are all well typed,
\* from_properties then to_properties gives a map whose keys are the
\* recognized keys of the input, with values equal to the input's (after
\* narrowing); unrecognized keys are absent.
TranslateKeepsValues ==
    (pc = "emitted" /\ Parsed /\ AllWellTyped(properties.val)) =>
        /\ amf.val.kind = "Object"
        /\ DOMAIN amf.val.obj = DOMAIN properties.val \cap RecognizedKeys
        /\ \A f \in Fields :
              KeyOf[f] \in DOMAIN properties.val =>
                 Amf0Eq(amf.val.obj[KeyOf[f]],
                        NarrowedValue(f, properties.val[KeyOf[f]]))

\* The narrowed value of the input under the key of f is a NaN.
NarrowsToNaN(props, f) ==
    /\ f \in FloatFields
    /\ KeyOf[f] \in DOMAIN props
    /\ props[KeyOf[f]].kind = "Number"
    /\ IsNaN(props[KeyOf[f]].num)

\* C7 amended: the key set is as stated; every value equals the input's
\* (after narrowing) except that a NaN under videocodecid, audiocodecid or
\* framerate comes out as a NaN, which equals nothing.
TranslateKeepsValuesUpToNaN ==
    (pc = "emitted" /\ Parsed /\ AllWellTyped(properties.val)) =>
        /\ amf.val.kind = "Object"
        /\ DOMAIN amf.val.obj = DOMAIN properties.val \cap RecognizedKeys
        /\ \A f \in Fields :
              KeyOf[f] \in DOMAIN properties.val =>
                 IF NarrowsToNaN(properties.val, f)
                 THEN /\ amf.val.obj[KeyOf[f]].kind = "Number"
                      /\ IsNaN(amf.val.obj[KeyOf[f]].num)
                 ELSE Amf0Eq(amf.val.obj[KeyOf[f]],
                             NarrowedValue(f, properties.val[KeyOf[f]]))

\* A well-typed frame rate beside an unrecognized key was translated: the
\* frame rate came out rounded, the other key did not come out.
TranslateKeepsValuesUpToNaNWitness ==
    /\ pc = "emitted"
    /\ Parsed
    /\ DOMAIN properties.val = {"framerate", "duration"}
    /\ properties.val["framerate"] = Number(Fin(FALSE, 0, 29, 1041529569))
    /\ DOMAIN amf.val.obj = {"framerate"}
    /\ amf.val.obj["framerate"] = Number(Fin(FALSE, 0, 29, 1041528832))

\* C8: to_properties returns an object map that holds the key of a field
\* if and only if the field is present, and nothing else: at most eleven
\* entries, and none for an empty record.
ToPropertiesEmitsPresent ==
    pc \in {"emitted", "reparsed"} =>
        /\ amf.tag = "Some"
        /\ amf.val.kind = "Object"
        /\ \A f \in Fields :
              /\ KeyOf[f] \in DOMAIN amf.val.obj <=> metadata[f].tag = "Some"
              /\ metadata[f].tag = "Some" =>
                    amf.val.obj[KeyOf[f]] = Widened(f, metadata[f].val)
        /\ DOMAIN amf.val.obj \subseteq RecognizedKeys
        /\ Cardinality(DOMAIN amf.val.obj) <= 11
        /\ metadata = StreamMetadata_new => amf.val.obj = EmptyMap

\* A record with four fields present gave a map of four entries.
ToPropertiesEmitsPresentWitness ==
    /\ pc = "emitted"
    /\ metadata = PartialRecord
    /\ DOMAIN amf.val.obj =
          {"videocodecid", "framerate", "audiosamplerate", "stereo"}

\* C10: apply_metadata_values on a record that has fields set never clears
\* one: a field whose key is absent or of the wrong kind keeps what it
\* held, a field whose key is well typed is overwritten; unrecognized keys
\* change nothing.
ApplyKeepsOtherFields ==
    pc = "applied" =>
        /\ DOMAIN metadata = Fields
        /\ \A f \in Fields :
              IF WellTyped(properties.val, f)
              THEN metadata[f] = Some(Narrowed(f, properties.val[KeyOf[f]]))
              ELSE metadata[f] = before[f]

\* On the publisher's record, a width of the wrong kind kept the old
\* width while a well-typed height replaced the old height.
ApplyKeepsOtherFieldsWitness ==
    /\ pc = "applied"
    /\ before = PublisherRecord
    /\ DOMAIN properties.val = {"width", "height"}
    /\ properties.val["width"] = Utf8String("obs")
    /\ properties.val["height"] = Number(Fin(FALSE, 0, 30, 0))
    /\ metadata.video_width = Some(U32(0, 1920))
    /\ metadata.video_height = Some(U32(0, 30))
    /\ metadata.encoder = Some("encoder-1")

====
